---- MODULE Spec2Model ----
(***************************************************************************)
(* Navigation & camera control of COSMOS DRIFT: the free-flight           *)
(* controller (FlightControls), the focus/autopilot controller            *)
(* (FocusControls), the body-position updater (updateSolarSystem) and the *)
(* driving loop and key handlers of CosmosApp.                            *)
(*                                                                         *)
(* Numbers are fixed point.  Lengths are in hundredths of a simulation    *)
(* unit, velocities in hundredths of a unit per second, angles in         *)
(* milliradians, times in milliseconds, transition progress in            *)
(* thousandths, blend factors in ten-thousandths.  Math.exp, Math.sin,    *)
(* Math.cos, Math.atan2 and Math.sqrt are computed by integer             *)
(* approximations; division truncates toward zero.                        *)
(***************************************************************************)
EXTENDS Integers, Sequences, FiniteSets, TLC

\* ------------------------------------------------------------- bounds
\* Frames the driving loop may run in one behaviour.
MaxFrames == 3
\* Largest |yaw| the pointer is moved to, in steps of YawStep.
MaxYawSteps == 1

\* ------------------------------------------------------ fixed point
Milli == 10 * 100
ExpScale == 10 * Milli
\* Math.PI in milliradians.
Pi == 3142
HalfPi == Pi \div 2
TwoPi == 2 * Pi

TDiv(a, b) == IF a >= 0 THEN a \div b ELSE -((-a) \div b)
Abs(a) == IF a < 0 THEN -a ELSE a
Max(a, b) == IF a > b THEN a ELSE b
Min(a, b) == IF a < b THEN a ELSE b

RECURSIVE IsqrtBetween(_, _, _)
IsqrtBetween(n, lo, hi) ==
  IF lo >= hi THEN lo
  ELSE LET mid == (lo + hi + 1) \div 2
       IN IF mid * mid <= n THEN IsqrtBetween(n, mid, hi)
          ELSE IsqrtBetween(n, lo, mid - 1)

\* Math.sqrt on a non-negative integer, rounded down.
Sqrt(n) == IsqrtBetween(n, 0, 46340)

\* Math.exp(-x) for x >= 0 in thousandths; result in ten-thousandths.
\* exp(-x) = exp(-x/16)^16, the inner one by its Taylor polynomial.
RECURSIVE SquareTimes(_, _)
SquareTimes(e, k) ==
  IF k = 0 THEN e ELSE SquareTimes((e * e) \div ExpScale, k - 1)

ExpNeg(x) ==
  IF x >= 16000 THEN 0
  ELSE LET h == (x * 10) \div 16           \* x/16 in ten-thousandths
           h2 == (h * h) \div ExpScale
           h3 == (h2 * h) \div ExpScale
           e == ExpScale - h + (h2 \div 2) - (h3 \div 6)
       IN SquareTimes(e, 4)

\* Math.sin / Math.cos of an angle in milliradians, result in thousandths
\* (Bhaskara's rational approximation on [0, pi]).
WrapTwoPi(a) == ((a % TwoPi) + TwoPi) % TwoPi

SinHalf(x) ==
  LET p == x * (Pi - x)
  IN (16 * p) \div ((5 * Pi * Pi - 4 * p) \div Milli)

Sin(a) ==
  LET x == WrapTwoPi(a)
  IN IF x <= Pi THEN SinHalf(x) ELSE -SinHalf(x - Pi)

Cos(a) == Sin(a + HalfPi)

\* Math.atan2(y, x) in milliradians, in (-pi, pi]; atan2(0, 0) = 0.
AtanUnit(z) == TDiv(z * (785 + TDiv(273 * (Milli - Abs(z)), Milli)), Milli)

Atan2(y, x) ==
  IF x = 0 /\ y = 0 THEN 0
  ELSE IF Abs(y) <= Abs(x)
       THEN LET a == AtanUnit(TDiv(y * Milli, x))
            IN IF x > 0 THEN a
               ELSE IF y >= 0 THEN a + Pi ELSE a - Pi
       ELSE LET a == AtanUnit(TDiv(x * Milli, y))
            IN IF y > 0 THEN HalfPi - a ELSE -HalfPi - a

\* ----------------------------------------------------------- vectors
Vec(x, y, z) == [x |-> x, y |-> y, z |-> z]
Zero3 == Vec(0, 0, 0)
VAdd(a, b) == Vec(a.x + b.x, a.y + b.y, a.z + b.z)
VSub(a, b) == Vec(a.x - b.x, a.y - b.y, a.z - b.z)
\* v * (num / den)
VScale(v, num, den) == Vec(TDiv(v.x * num, den), TDiv(v.y * num, den), TDiv(v.z * num, den))
LengthSq(v) == v.x * v.x + v.y * v.y + v.z * v.z
Length(v) == Sqrt(LengthSq(v))
DistanceTo(a, b) == Length(VSub(a, b))

\* --------------------------------------------------- static catalog
\* createSolarSystem's planetsData, cut down to Mercury and Earth with its
\* Moon.  radius = kmToSimulation(km), orbitRadius = auToSimulation(au) (for
\* the Moon kmToSimulation(384400) * 0.3), in hundredths of a unit;
\* orbitPeriod in thousandths of a year, rotationPeriod in thousandths of a
\* day.
BodyData(name, radius, orbitRadius, orbitPeriod, rotationPeriod, moons) ==
  [name |-> name, radius |-> radius, orbitRadius |-> orbitRadius,
   orbitPeriod |-> orbitPeriod, rotationPeriod |-> rotationPeriod,
   hasPosition |-> FALSE, position |-> Zero3, positionFinite |-> TRUE,
   mesh |-> FALSE, rotationY |-> 0, rotationFinite |-> TRUE,
   moons |-> moons]

planetsData ==
  << BodyData("Mercury", 6, 1658, 240, 58600, << >>),
     BodyData("Earth", 16, 4250, 1000, 1000,
              << BodyData("Moon", 4, 288, 75, 27300, << >>) >>) >>

\* createPlanet: the body gets its mesh and its initial position
\* (orbitRadius, 0, 0).
createPlanet(b) ==
  [b EXCEPT !.hasPosition = TRUE,
            !.position = Vec(b.orbitRadius, 0, 0),
            !.mesh = TRUE]

\* createSolarSystem: every planet of the catalog is created, then each of
\* its moons; no field of an entry is examined on the way.
createBodies(data) ==
  [i \in DOMAIN data |->
     LET p == createPlanet(data[i])
     IN [p EXCEPT !.moons = [j \in DOMAIN p.moons |-> createPlanet(p.moons[j])]]]

createSolarSystem == createBodies(planetsData)

\* updateSolarSystem(solarSystem, time, camera): planets without a mesh are
\* skipped with their moons; a planet's position is a function of time, a
\* moon's the parent's fresh position plus its own offset; mesh.rotation.y
\* grows by a fixed amount per call (micro-radians), for a moon without the
\* zero test, so a moon with rotationPeriod 0 gets a non-finite angle.
\* time / orbitPeriod is not finite for orbitPeriod 0 (Infinity or NaN, the
\* cosine of either NaN): the position is then marked not finite and its
\* stored value stands for nothing.
orbitalAngle(time, orbitPeriod) ==
  IF orbitPeriod = 0 THEN 0 ELSE TDiv(time * 100, orbitPeriod)

orbitalOffset(time, b) ==
  LET angle == orbitalAngle(time, b.orbitPeriod)
  IN Vec(TDiv(Cos(angle) * b.orbitRadius, Milli), 0,
         TDiv(Sin(angle) * b.orbitRadius, Milli))

updateMoon(m, parentPosition, parentFinite, time) ==
  IF ~m.mesh THEN m
  ELSE [m EXCEPT !.hasPosition = TRUE,
                 !.position = VAdd(parentPosition, orbitalOffset(time, m)),
                 !.positionFinite = parentFinite /\ m.orbitPeriod # 0,
                 !.rotationFinite = m.rotationFinite /\ m.rotationPeriod # 0,
                 !.rotationY = IF m.rotationPeriod = 0 THEN 0
                               ELSE m.rotationY + TDiv(10000 * Milli, m.rotationPeriod)]


\* updatePlanet stepping the position on from the stored one instead of
\* computing it from the time.
updatePlanetFromLast(p, time) ==
  IF ~p.mesh THEN p
  ELSE LET pos == VAdd(VSub(p.position, orbitalOffset(0, p)), orbitalOffset(time, p))
           rotationSpeed == IF p.rotationPeriod # 0
                            THEN TDiv(10000 * Milli, p.rotationPeriod) ELSE 0
       IN [p EXCEPT !.hasPosition = TRUE,
                    !.position = pos,
                    !.positionFinite = p.orbitPeriod # 0,
                    !.rotationY = p.rotationY + rotationSpeed,
                    !.moons = [j \in DOMAIN p.moons |-> updateMoon(p.moons[j], pos, p.orbitPeriod # 0, time)]]

\* updatePlanet computing the moons from the parent position of the tick
\* before.
updatePlanetStaleParent(p, time) ==
  IF ~p.mesh THEN p
  ELSE LET pos == orbitalOffset(time, p)
           rotationSpeed == IF p.rotationPeriod # 0
                            THEN TDiv(10000 * Milli, p.rotationPeriod) ELSE 0
       IN [p EXCEPT !.hasPosition = TRUE,
                    !.position = pos,
                    !.positionFinite = p.orbitPeriod # 0,
                    !.rotationY = p.rotationY + rotationSpeed,
                    !.moons = [j \in DOMAIN p.moons |->
                                 updateMoon(p.moons[j], p.position, p.positionFinite, time)]]

updatePlanet(p, time) ==
  IF ~p.mesh THEN p
  ELSE LET pos == orbitalOffset(time, p)
           rotationSpeed == IF p.rotationPeriod # 0
                            THEN TDiv(10000 * Milli, p.rotationPeriod) ELSE 0
       IN [p EXCEPT !.hasPosition = TRUE,
                    !.position = pos,
                    !.positionFinite = p.orbitPeriod # 0,
                    !.rotationY = p.rotationY + rotationSpeed,
                    !.moons = [j \in DOMAIN p.moons |-> updateMoon(p.moons[j], pos, p.orbitPeriod # 0, time)]]

updateSolarSystem(ps, time) == [i \in DOMAIN ps |-> updatePlanet(ps[i], time)]

\* ------------------------------------------------------ utils/math
lerp(start, end, t) == start + TDiv((end - start) * t, ExpScale)
\* clamp with the upper limit forgotten.
clampNoMax(value, min, max) == Max(min, value)
clamp(value, min, max) == Max(min, Min(max, value))
\* damp(current, target, smoothTime, deltaTime), smoothTime in seconds,
\* deltaTime in milliseconds.
dampFactor(smoothTime, deltaTime) == ExpScale - ExpNeg(deltaTime \div smoothTime)
damp(current, target, smoothTime, deltaTime) ==
  lerp(current, target, dampFactor(smoothTime, deltaTime))

\* ---------------------------------------------------- orientations
\* An orientation (THREE.Quaternion) is held as its Euler angles in order
\* YXZ: x pitch, y yaw, z roll, in milliradians, yaw wrapped to (-pi, pi].
Euler(x, y, z) == [x |-> x, y |-> y, z |-> z]
WrapPi(a) == LET w == WrapTwoPi(a) IN IF w > Pi THEN w - TwoPi ELSE w
setFromEuler(e) == Euler(e.x, WrapPi(e.y), e.z)

\* Vector3.applyQuaternion for an orientation q: Ry(yaw) * Rx(pitch) * v.
applyQuaternion(v, q) ==
  LET y1 == TDiv(v.y * Cos(q.x) - v.z * Sin(q.x), Milli)
      z1 == TDiv(v.y * Sin(q.x) + v.z * Cos(q.x), Milli)
  IN Vec(TDiv(v.x * Cos(q.y) + z1 * Sin(q.y), Milli), y1,
         TDiv(z1 * Cos(q.y) - v.x * Sin(q.y), Milli))

\* Matrix4.lookAt(eye, target, up = +y) then setFromRotationMatrix: the
\* camera looks down its -z axis, so z = eye - target.
lookAt(eye, target) ==
  LET d == VSub(eye, target)
      z == IF d = Zero3 THEN Vec(0, 0, 1) ELSE d
  IN Euler(Atan2(-z.y, Sqrt(z.x * z.x + z.z * z.z)), Atan2(z.x, z.z), 0)

\* Quaternion.slerp(target, t), t in ten-thousandths: each angle moves the
\* fraction t of the way, yaw along the shorter arc.
slerp(q, target, t) ==
  Euler(lerp(q.x, target.x, t),
        WrapPi(q.y + TDiv(WrapPi(target.y - q.y) * t, ExpScale)),
        lerp(q.z, target.z, t))

\* ---------------------------------------------------- FlightControls
Centi == 10 * 10
\* Speed settings: units per second, seconds.
baseSpeed == 30
boostMultiplier == 8
acceleration == 30
damping == 5
\* 0.002 rad per pixel, in milliradians.
mouseSensitivity == 2

\* The camera after createScene: at (0, 50, 150), looking at the origin.
cameraInit ==
  LET pos == Vec(0, 50 * Centi, 150 * Centi)
  IN [position |-> pos, quaternion |-> lookAt(pos, Zero3)]

\* new FlightControls(camera, domElement): euler.setFromQuaternion.
flightInit(cam) ==
  [moveForward |-> FALSE, moveBackward |-> FALSE, moveLeft |-> FALSE,
   moveRight |-> FALSE, moveUp |-> FALSE, moveDown |-> FALSE, boost |-> FALSE,
   velocity |-> Zero3, euler |-> cam.quaternion, isLocked |-> FALSE]

\* onMouseMove: ignored unless locked; yaw and pitch follow the pointer,
\* pitch clamped to [-pi/2, pi/2].
onMouseMove(fl, movementX, movementY) ==
  IF ~fl.isLocked THEN fl
  ELSE [fl EXCEPT !.euler =
          Euler(clamp(fl.euler.x - movementY * mouseSensitivity, -HalfPi, HalfPi),
                fl.euler.y - movementX * mouseSensitivity,
                fl.euler.z)]

\* onPointerlockChange that also brings the controller to rest.
onPointerlockChangeStops(fl, pointerLockElement) ==
  [fl EXCEPT !.isLocked = (pointerLockElement = "canvas"), !.velocity = Zero3]

\* onPointerlockChange: isLocked follows document.pointerLockElement.
onPointerlockChange(fl, pointerLockElement) ==
  [fl EXCEPT !.isLocked = (pointerLockElement = "canvas")]

\* onPointerlockError(): console.error('Pointer lock failed') and nothing
\* else; the result names the controller callbacks it invoked (of
\* onLockCallback and onUnlockCallback, the two the controller has).
onPointerlockError(fl) == [flight |-> fl, callbacks |-> {}, logged |-> TRUE]

\* onKeyDown / onKeyUp: the switch on event.code; other codes fall through.
setKey(fl, code, down) ==
  CASE code = "KeyW" -> [fl EXCEPT !.moveForward = down]
    [] code = "KeyS" -> [fl EXCEPT !.moveBackward = down]
    [] code = "KeyA" -> [fl EXCEPT !.moveLeft = down]
    [] code = "KeyD" -> [fl EXCEPT !.moveRight = down]
    [] code = "KeyQ" -> [fl EXCEPT !.moveDown = down]
    [] code = "KeyE" -> [fl EXCEPT !.moveUp = down]
    [] code \in {"ShiftLeft", "ShiftRight"} -> [fl EXCEPT !.boost = down]
    [] OTHER -> fl

onKeyDown(fl, code) == setKey(fl, code, TRUE)
onKeyUp(fl, code) == setKey(fl, code, FALSE)

\* The direction built from the six flags and left as it is, not normalized.
flagDirectionRaw(fl) ==
  VScale(Vec((IF fl.moveRight THEN 1 ELSE 0) - (IF fl.moveLeft THEN 1 ELSE 0),
             (IF fl.moveUp THEN 1 ELSE 0) - (IF fl.moveDown THEN 1 ELSE 0),
             (IF fl.moveBackward THEN 1 ELSE 0) - (IF fl.moveForward THEN 1 ELSE 0)),
         Milli, 1)

\* The direction built from the six flags, normalized when non-zero
\* (thousandths).
flagDirection(fl) ==
  LET d == Vec((IF fl.moveRight THEN 1 ELSE 0) - (IF fl.moveLeft THEN 1 ELSE 0),
               (IF fl.moveUp THEN 1 ELSE 0) - (IF fl.moveDown THEN 1 ELSE 0),
               (IF fl.moveBackward THEN 1 ELSE 0) - (IF fl.moveForward THEN 1 ELSE 0))
      dm == VScale(d, Milli, 1)
  IN IF Length(dm) > 0 THEN VScale(dm, Milli, Length(dm)) ELSE dm

\* FlightControls.update(deltaTime): a no-op unless locked; otherwise the
\* camera takes the orientation of euler, velocity is damped toward the
\* target velocity and integrated into the camera position.
\* st is [flight, camera]; the result adds wrote, whether the camera was
\* written.
\* The boost added on top of the base speed instead of replacing it.
targetSpeedBoostAdds(fl) ==
  baseSpeed * Centi * (IF fl.boost THEN 1 + boostMultiplier ELSE 1)

\* The target velocity: the direction turned into world space, times
\* baseSpeed * (boost ? boostMultiplier : 1) (hundredths per second).
targetSpeed(fl) == baseSpeed * Centi * (IF fl.boost THEN boostMultiplier ELSE 1)

targetVelocity(fl, q) ==
  VScale(applyQuaternion(flagDirection(fl), q), targetSpeed(fl), Milli)

flightUpdate(fl, cam, deltaTime) ==
  IF ~fl.isLocked THEN [flight |-> fl, camera |-> cam, wrote |-> FALSE]
  ELSE LET q == setFromEuler(fl.euler)
           target == targetVelocity(fl, q)
           dampingFactor == IF Length(target) > 0 THEN acceleration ELSE damping
           v == Vec(damp(fl.velocity.x, target.x, dampingFactor, deltaTime),
                    damp(fl.velocity.y, target.y, dampingFactor, deltaTime),
                    damp(fl.velocity.z, target.z, dampingFactor, deltaTime))
       IN [flight |-> [fl EXCEPT !.velocity = v],
           camera |-> [position |-> VAdd(cam.position, VScale(v, deltaTime, Milli)),
                       quaternion |-> q],
           wrote |-> TRUE]

\* getSpeed(): the magnitude of velocity.
getSpeed(fl) == Length(fl.velocity)

\* disable() that clears the flags and leaves velocity alone.
disableKeepsVelocity(fl) ==
  [fl EXCEPT !.moveForward = FALSE, !.moveBackward = FALSE, !.moveLeft = FALSE,
             !.moveRight = FALSE, !.moveUp = FALSE, !.moveDown = FALSE,
             !.boost = FALSE]

\* disable(): clears the seven flags and zeroes velocity.
disable(fl) ==
  [fl EXCEPT !.moveForward = FALSE, !.moveBackward = FALSE, !.moveLeft = FALSE,
             !.moveRight = FALSE, !.moveUp = FALSE, !.moveDown = FALSE,
             !.boost = FALSE, !.velocity = Zero3]

\* ----------------------------------------------------- FocusControls
\* transitionSpeed per second; orbitSpeed 0.3 rad/s in tenths; the orbit
\* radius is 3 planet radii; the camera rides 0.3 orbit radii above the
\* target (tenths); position follows at rate 5, orientation at rate 8.
transitionSpeed == 2
orbitSpeedTenths == 3
orbitRadiusFactor == 3
orbitHeightTenths == 3
followRate == 5
lookRate == 8
\* nearestDistance starts at Infinity.
Infinity == 2147483647
\* targetPlanet = null.
NoPlanet == "null"

focusInit ==
  [targetPlanet |-> NoPlanet, isFocused |-> FALSE, focusDistance |-> 0,
   transitionProgress |-> 0, orbitAngle |-> 0, orbitRadius |-> 0,
   originalPosition |-> Zero3, originalQuaternion |-> Euler(0, 0, 0)]

\* The bodies in the order focusOnNearest visits them: each planet, then
\* its moons.
RECURSIVE flatten(_, _)
flatten(ps, i) ==
  IF i > Len(ps) THEN << >>
  ELSE << ps[i] >> \o ps[i].moons \o flatten(ps, i + 1)

\* The live PlanetData object a name refers to.
bodyNamed(ps, name) ==
  LET all == flatten(ps, 1)
  IN all[CHOOSE k \in DOMAIN all : all[k].name = name]

\* focusOnPlanet that starts the session without resetting the progress and
\* the saved start position.
focusOnPlanetKeepsSession(fc, cam, planet) ==
  IF ~planet.mesh \/ ~planet.hasPosition THEN fc
  ELSE LET directionToPlanet == VSub(planet.position, cam.position)
       IN [fc EXCEPT !.originalQuaternion = cam.quaternion,
                     !.targetPlanet = planet.name,
                     !.isFocused = TRUE,
                     !.orbitRadius = planet.radius * orbitRadiusFactor,
                     !.focusDistance = planet.radius * orbitRadiusFactor,
                     !.orbitAngle = Atan2(directionToPlanet.x, directionToPlanet.z)]

\* focusOnPlanet(planet): nothing without a mesh or a position; otherwise
\* the camera pose is saved, the session starts at progress 0, and the
\* orbit starts at the bearing from the camera to the planet.  (focusOffset
\* and currentOffset are written here and read nowhere.)
focusOnPlanet(fc, cam, planet) ==
  IF ~planet.mesh \/ ~planet.hasPosition THEN fc
  ELSE LET directionToPlanet == VSub(planet.position, cam.position)
       IN [fc EXCEPT !.originalPosition = cam.position,
                     !.originalQuaternion = cam.quaternion,
                     !.targetPlanet = planet.name,
                     !.isFocused = TRUE,
                     !.transitionProgress = 0,
                     !.orbitRadius = planet.radius * orbitRadiusFactor,
                     !.focusDistance = planet.radius * orbitRadiusFactor,
                     !.orbitAngle = Atan2(directionToPlanet.x, directionToPlanet.z)]

\* The scan of focusOnNearest over the moons of one planet; acc is
\* [nearest, nearestDistance].  Distances are compared by their squares.
RECURSIVE scanMoons(_, _, _, _)
scanMoons(moons, j, camPos, acc) ==
  IF j > Len(moons) THEN acc
  ELSE LET moon == moons[j]
           moonDistance == LengthSq(VSub(camPos, moon.position))
       IN IF ~moon.hasPosition THEN scanMoons(moons, j + 1, camPos, acc)
          ELSE IF moonDistance < acc.nearestDistance
               THEN scanMoons(moons, j + 1, camPos,
                              [nearest |-> moon.name, nearestDistance |-> moonDistance])
               ELSE scanMoons(moons, j + 1, camPos, acc)

RECURSIVE scanPlanets(_, _, _, _)
scanPlanets(ps, i, camPos, acc) ==
  IF i > Len(ps) THEN acc
  ELSE LET planet == ps[i]
           distance == LengthSq(VSub(camPos, planet.position))
       IN IF ~planet.hasPosition THEN scanPlanets(ps, i + 1, camPos, acc)
          ELSE LET a1 == IF distance < acc.nearestDistance
                         THEN [nearest |-> planet.name, nearestDistance |-> distance]
                         ELSE acc
               IN scanPlanets(ps, i + 1, camPos, scanMoons(planet.moons, 1, camPos, a1))

\* focusOnNearest(planets): the name of the nearest body, or null; the
\* nearest body, when there is one, is handed to focusOnPlanet.
nearestOf(ps, camPos) ==
  scanPlanets(ps, 1, camPos, [nearest |-> NoPlanet, nearestDistance |-> Infinity]).nearest

\* focusOnNearest marking the controller focused before it knows whether a
\* body was found.
focusOnNearestEager(fc, cam, ps) ==
  LET nearest == nearestOf(ps, cam.position)
      marked == [fc EXCEPT !.isFocused = TRUE, !.transitionProgress = 0]
  IN [focus |-> IF nearest # NoPlanet THEN focusOnPlanet(marked, cam, bodyNamed(ps, nearest))
                ELSE marked,
      result |-> nearest]

focusOnNearest(fc, cam, ps) ==
  LET nearest == nearestOf(ps, cam.position)
  IN [focus |-> IF nearest # NoPlanet THEN focusOnPlanet(fc, cam, bodyNamed(ps, nearest))
                ELSE fc,
      result |-> nearest]

\* returnToFreeFlight that leaves the target reference set.
returnToFreeFlightKeepsTarget(fc) ==
  IF ~fc.isFocused THEN fc ELSE [fc EXCEPT !.isFocused = FALSE]

\* returnToFreeFlight that drops the target and leaves isFocused set.
returnToFreeFlightKeepsFlag(fc) ==
  IF ~fc.isFocused THEN fc ELSE [fc EXCEPT !.targetPlanet = NoPlanet]

\* returnToFreeFlight(): nothing unless focused; the target is dropped.
returnToFreeFlight(fc) ==
  IF ~fc.isFocused THEN fc
  ELSE [fc EXCEPT !.isFocused = FALSE, !.targetPlanet = NoPlanet]

\* easeInOutCubic(t), t and result in thousandths.
easeInOutCubic(t) ==
  IF t < 500 THEN (4 * t * t * t) \div (Milli * Milli)
  ELSE Milli - (((2 * Milli - 2 * t) * (2 * Milli - 2 * t) * (2 * Milli - 2 * t)) \div 2)
               \div (Milli * Milli)

\* transitionProgress advanced without the clamp to 1.
advanceProgressUnclamped(progress, deltaTime) ==
  progress + deltaTime * transitionSpeed

\* transitionProgress advanced by deltaTime alone, transitionSpeed forgotten.
advanceProgressNoSpeed(progress, deltaTime) ==
  Min(progress + deltaTime, Milli)

\* transitionProgress after a frame: advanced, never beyond 1.
advanceProgress(progress, deltaTime) ==
  Min(progress + deltaTime * transitionSpeed, Milli)

\* FocusControls.update(deltaTime): nothing unless focused on a body with
\* a position; progress and orbit angle advance, the camera position is
\* blended (in transition) or follows (in orbit) the orbit point, and the
\* camera turns toward the target.
focusUpdate(fc, cam, ps, deltaTime) ==
  IF ~fc.isFocused \/ fc.targetPlanet = NoPlanet
     \/ ~bodyNamed(ps, fc.targetPlanet).hasPosition
  THEN [focus |-> fc, camera |-> cam, wrote |-> FALSE, read |-> Zero3]
  ELSE LET progress == advanceProgress(fc.transitionProgress, deltaTime)
           angle == fc.orbitAngle + (orbitSpeedTenths * deltaTime) \div 10
           targetPosition == bodyNamed(ps, fc.targetPlanet).position
           orbitOffset == Vec(TDiv(Sin(angle) * fc.orbitRadius, Milli),
                              (fc.orbitRadius * orbitHeightTenths) \div 10,
                              TDiv(Cos(angle) * fc.orbitRadius, Milli))
           idealPosition == VAdd(targetPosition, orbitOffset)
           position ==
             IF progress < Milli
             THEN VAdd(fc.originalPosition,
                       VScale(VSub(idealPosition, fc.originalPosition),
                              easeInOutCubic(progress), Milli))
             ELSE VAdd(cam.position,
                       VScale(VSub(idealPosition, cam.position),
                              ExpScale - ExpNeg(followRate * deltaTime), ExpScale))
           targetQuaternion == lookAt(position, targetPosition)
       IN [focus |-> [fc EXCEPT !.transitionProgress = progress, !.orbitAngle = angle],
           camera |-> [position |-> position,
                       quaternion |-> slerp(cam.quaternion, targetQuaternion,
                                            ExpScale - ExpNeg(lookRate * deltaTime))],
           wrote |-> TRUE, read |-> targetPosition]

getDistanceToTarget(fc, cam, ps) ==
  IF fc.targetPlanet = NoPlanet \/ ~bodyNamed(ps, fc.targetPlanet).hasPosition THEN 0
  ELSE DistanceTo(cam.position, bodyNamed(ps, fc.targetPlanet).position)

\* ----------------------------------------------------------- CosmosApp
VARIABLES
  time,      \* CosmosApp.time, milliseconds
  frames,    \* frames run so far
  planets,   \* solarSystem.planets
  camera,    \* camera.position, camera.quaternion
  flight,    \* the FlightControls object
  focus,     \* the FocusControls object
  dom,       \* document.pointerLockElement and the requests in flight
  ui,        \* HelpOverlay.isVisible, Settings.isVisible
  hud,       \* what animate last handed to HUD.update
  hist       \* observations of the last frame, release and call

vars == << time, frames, planets, camera, flight, focus, dom, ui, hud, hist >>

\* The program state as one record, so that a handler is a function on it.
App ==
  [time |-> time, planets |-> planets, camera |-> camera, flight |-> flight,
   focus |-> focus, dom |-> dom, ui |-> ui, hud |-> hud]

Becomes(st) ==
  /\ time' = st.time
  /\ planets' = st.planets
  /\ camera' = st.camera
  /\ flight' = st.flight
  /\ focus' = st.focus
  /\ dom' = st.dom
  /\ ui' = st.ui
  /\ hud' = st.hud

\* The navigation state: everything but the clock, the bodies and the HUD.
Nav(st) == [camera |-> st.camera, flight |-> st.flight, focus |-> st.focus]

\* Element.requestPointerLock() / document.exitPointerLock(): both only
\* start a request the browser answers later.
requestPointerLock(d) == [d EXCEPT !.lockPending = TRUE]
exitPointerLock(d) ==
  IF d.pointerLockElement = "canvas" THEN [d EXCEPT !.exitPending = TRUE] ELSE d

\* click on the canvas: lock unless locked or a panel is open.
onClick(st) ==
  IF ~st.flight.isLocked /\ ~st.ui.helpVisible /\ ~st.ui.settingsVisible
  THEN [st EXCEPT !.dom = requestPointerLock(st.dom)]
  ELSE st

\* keydown Escape: flightControls.unlock(), and each visible panel hides.
onKeyEscape(st) ==
  [st EXCEPT !.dom = exitPointerLock(st.dom),
             !.ui = [helpVisible |-> FALSE, settingsVisible |-> FALSE]]

\* keydown KeyH: HelpOverlay.toggle(); show() exits pointer lock.
onKeyH(st) ==
  IF st.ui.helpVisible THEN [st EXCEPT !.ui.helpVisible = FALSE]
  ELSE [st EXCEPT !.ui.helpVisible = TRUE, !.dom = exitPointerLock(st.dom)]

\* keydown KeyP: Settings.toggle(); show() exits pointer lock.
onKeyP(st) ==
  IF st.ui.settingsVisible THEN [st EXCEPT !.ui.settingsVisible = FALSE]
  ELSE [st EXCEPT !.ui.settingsVisible = TRUE, !.dom = exitPointerLock(st.dom)]

\* The KeyF handler without the test for an active focus.
onKeyFAlways(st) ==
  IF ~st.ui.helpVisible /\ ~st.ui.settingsVisible
  THEN [st EXCEPT !.focus = focusOnNearest(st.focus, st.camera, st.planets).focus,
                  !.flight = disable(st.flight)]
  ELSE st

\* keydown KeyF: unless a panel is open or focus is active, focus on the
\* nearest body, then disable free flight.
onKeyF(st) ==
  IF ~st.ui.helpVisible /\ ~st.ui.settingsVisible /\ ~st.focus.isFocused
  THEN [st EXCEPT !.focus = focusOnNearest(st.focus, st.camera, st.planets).focus,
                  !.flight = disable(st.flight)]
  ELSE st

\* The KeyG handler also giving up the pointer lock.
onKeyGUnlocks(st) ==
  IF ~st.ui.helpVisible /\ ~st.ui.settingsVisible
  THEN [st EXCEPT !.focus = returnToFreeFlight(st.focus),
                  !.dom = exitPointerLock(st.dom)]
  ELSE st

\* keydown KeyG: unless a panel is open, return to free flight.
onKeyG(st) ==
  IF ~st.ui.helpVisible /\ ~st.ui.settingsVisible
  THEN [st EXCEPT !.focus = returnToFreeFlight(st.focus)]
  ELSE st

\* animate updating both controllers whatever the mode.
drivingBoth(fc) == {"focus", "flight"}

\* The controllers animate updates in a frame.
drivingControllers(fc) == IF fc.isFocused THEN {"focus"} ELSE {"flight"}

\* animate: the clock advances, the driving controller is updated, then
\* the solar system, then the HUD.  The result carries, beside the new
\* state, what the frame did: the controllers updated, those that wrote the
\* camera, and the target position the focus controller read.
animate(st, deltaTime) ==
  LET ctl == drivingControllers(st.focus)
      shown(f1, f2, ps) ==
        [speed |-> IF f1.focus.isFocused THEN 0 ELSE getSpeed(f2.flight),
         isFocused |-> f1.focus.isFocused,
         targetPlanet |-> f1.focus.targetPlanet,
         distance |-> IF f1.focus.isFocused
                      THEN getDistanceToTarget(f1.focus, f2.camera, ps) ELSE 0]
      frame(t, f1, f2, ps) ==
        [state |-> [st EXCEPT !.time = t, !.planets = ps, !.camera = f2.camera,
                              !.flight = f2.flight, !.focus = f1.focus,
                              !.hud = shown(f1, f2, ps)],
         updated |-> ctl,
         writers |-> (IF f1.wrote THEN {"focus"} ELSE {}) \cup
                     (IF f2.wrote THEN {"flight"} ELSE {}),
         readTarget |-> f1.wrote,
         targetRead |-> f1.read]
      afterControllers(t, f1) ==
        frame(t, f1,
              IF "flight" \in ctl
              THEN flightUpdate(st.flight, f1.camera, deltaTime)
              ELSE [flight |-> st.flight, camera |-> f1.camera, wrote |-> FALSE],
              updateSolarSystem(st.planets, t))
  IN afterControllers(
       st.time + deltaTime,
       IF "focus" \in ctl
       THEN focusUpdate(st.focus, st.camera, st.planets, deltaTime)
       ELSE [focus |-> st.focus, camera |-> st.camera, wrote |-> FALSE, read |-> Zero3])

\* ------------------------------------------------------- environment
\* Frame times (THREE.Clock.getDelta) after the first frame, which init
\* runs itself and whose delta is 0: a quarter and a half of a second.
DtSet == {250, 500}
\* Keys of the movement switch the user presses.
MoveCodes == {"KeyW"}
\* Pointer motions (movementX, movementY) in pixels.
YawStep == 400
MouseMoves == {<< 0, 2000 >>, << YawStep, -2000 >>}

noFrame ==
  [ran |-> FALSE, focusedAtStart |-> FALSE, updated |-> {}, writers |-> {},
   readTarget |-> FALSE, targetRead |-> Zero3, targetName |-> NoPlanet]
noRelease ==
  [active |-> FALSE, pose |-> cameraInit, quiet |-> FALSE, flightUpdated |-> FALSE]

\* disable() seen by the free-flight controller on its own: whether it was
\* called in forward motion, where the camera was, and whether update ran
\* since.
noDisable == [called |-> FALSE, position |-> Zero3, updatedSince |-> FALSE]
\* The last focusOnNearest call made directly: its result and the state
\* before it.
noCall == [called |-> FALSE, result |-> NoPlanet, focus |-> focusInit, camera |-> cameraInit]

Init ==
  /\ time = 0
  /\ frames = 0
  /\ planets = createSolarSystem
  /\ camera = cameraInit
  /\ flight = flightInit(cameraInit)
  /\ focus = focusInit
  /\ dom = [pointerLockElement |-> "null", lockPending |-> FALSE, exitPending |-> FALSE]
  /\ ui = [helpVisible |-> FALSE, settingsVisible |-> FALSE]
  /\ hud = [speed |-> 0, isFocused |-> FALSE, targetPlanet |-> NoPlanet, distance |-> 0]
  /\ hist = [frame |-> noFrame, release |-> noRelease,
             disable |-> noDisable, call |-> noCall]

\* init() registers the handlers and runs the first frame in one go, so a
\* handler only ever runs after a frame.
isRunning == frames >= 1

\* requestAnimationFrame fires: one pass of animate.
Animate ==
  /\ frames < MaxFrames
  /\ \E deltaTime \in (IF frames = 0 THEN {0} ELSE DtSet) :
       \E r \in {animate(App, deltaTime)} :
         /\ Becomes(r.state)
         /\ hist' = [hist EXCEPT
                      !.frame = [ran |-> TRUE,
                                 focusedAtStart |-> focus.isFocused,
                                 updated |-> r.updated,
                                 writers |-> r.writers,
                                 readTarget |-> r.readTarget,
                                 targetRead |-> r.targetRead,
                                 targetName |-> IF r.readTarget THEN focus.targetPlanet
                                                ELSE NoPlanet],
                      !.release = IF hist.release.active /\ "flight" \in r.updated
                                  THEN [hist.release EXCEPT !.flightUpdated = TRUE]
                                  ELSE hist.release]
  /\ frames' = frames + 1

Click ==
  /\ isRunning
  /\ Becomes(onClick(App))
  /\ UNCHANGED << frames, hist >>

KeyEscape ==
  /\ isRunning
  /\ Becomes(onKeyEscape(App))
  /\ UNCHANGED << frames, hist >>

KeyH ==
  /\ isRunning
  /\ Becomes(onKeyH(App))
  /\ UNCHANGED << frames, hist >>

KeyP ==
  /\ isRunning
  /\ Becomes(onKeyP(App))
  /\ UNCHANGED << frames, hist >>

\* request-focus
KeyF ==
  /\ isRunning
  /\ Becomes(onKeyF(App))
  /\ hist' = IF onKeyF(App).focus.isFocused /\ ~focus.isFocused
              THEN [hist EXCEPT !.release = noRelease] ELSE hist
  /\ UNCHANGED frames

\* request-release
KeyG ==
  /\ isRunning
  /\ Becomes(onKeyG(App))
  /\ hist' = IF focus.isFocused /\ ~onKeyG(App).focus.isFocused
              THEN [hist EXCEPT !.release =
                      [active |-> TRUE, pose |-> camera, quiet |-> TRUE,
                       flightUpdated |-> FALSE]]
              ELSE hist
  /\ UNCHANGED frames

\* After a release, a pointer motion or a movement key ends the quiet
\* stretch the release is judged on.
Disturbed ==
  IF hist.release.active
  THEN [hist EXCEPT !.release = [hist.release EXCEPT !.quiet = FALSE, !.pose = cameraInit]]
  ELSE hist

KeyDown ==
  /\ isRunning
  /\ \E code \in MoveCodes :
       Becomes([App EXCEPT !.flight = onKeyDown(flight, code)])
  /\ hist' = Disturbed
  /\ UNCHANGED frames

KeyUp ==
  /\ isRunning
  /\ \E code \in MoveCodes :
       Becomes([App EXCEPT !.flight = onKeyUp(flight, code)])
  /\ hist' = Disturbed
  /\ UNCHANGED frames

MouseMove ==
  /\ isRunning
  /\ \E m \in MouseMoves :
       /\ Abs(flight.euler.y - m[1] * mouseSensitivity)
            <= MaxYawSteps * YawStep * mouseSensitivity
       /\ Becomes([App EXCEPT !.flight = onMouseMove(flight, m[1], m[2])])
  /\ hist' = Disturbed
  /\ UNCHANGED frames

\* The browser grants the pending lock request and fires pointerlockchange.
PointerLockGranted ==
  /\ isRunning
  /\ dom.lockPending
  /\ LET d == [dom EXCEPT !.lockPending = FALSE, !.pointerLockElement = "canvas"]
     IN Becomes([App EXCEPT !.dom = d,
                            !.flight = onPointerlockChange(flight, d.pointerLockElement)])
  /\ UNCHANGED << frames, hist >>

\* The browser rejects it and fires pointerlockerror (logged only).
PointerLockError ==
  /\ isRunning
  /\ dom.lockPending
  /\ Becomes([App EXCEPT !.dom.lockPending = FALSE,
                         !.flight = onPointerlockError(flight).flight])
  /\ UNCHANGED << frames, hist >>

\* The lock ends, on exitPointerLock or by the browser's own doing, and
\* pointerlockchange fires.
PointerLockExited ==
  /\ isRunning
  /\ dom.pointerLockElement = "canvas"
  /\ LET d == [dom EXCEPT !.exitPending = FALSE, !.pointerLockElement = "null"]
     IN Becomes([App EXCEPT !.dom = d,
                            !.flight = onPointerlockChange(flight, d.pointerLockElement)])
  /\ UNCHANGED << frames, hist >>

\* The navigation events.  The Escape, KeyH and KeyP handlers touch the
\* navigation state only by ending the pointer lock, which PointerLockExited
\* does at any time, and by opening a panel, under which Click, KeyF and
\* KeyG do nothing; they are part of NextPanels.
Next ==
  \/ Animate
  \/ Click
  \/ KeyF
  \/ KeyG
  \/ KeyDown
  \/ KeyUp
  \/ MouseMove
  \/ PointerLockGranted
  \/ PointerLockError
  \/ PointerLockExited

Spec == Init /\ [][Next]_vars

\* ---------------------------------- FlightControls driven on its own
\* The free-flight controller with its listeners and public methods called
\* in any order: pointerlockchange, mousemove, keydown, keyup, update(dt)
\* and disable().
FlightLockChange ==
  /\ LET d == [dom EXCEPT !.pointerLockElement =
                  IF dom.pointerLockElement = "canvas" THEN "null" ELSE "canvas"]
     IN /\ dom' = d
        /\ flight' = onPointerlockChange(flight, d.pointerLockElement)
  /\ UNCHANGED << time, frames, planets, camera, focus, ui, hud, hist >>

FlightKeyDown ==
  /\ \E code \in MoveCodes : flight' = onKeyDown(flight, code)
  /\ UNCHANGED << time, frames, planets, camera, focus, dom, ui, hud, hist >>

FlightKeyUp ==
  /\ \E code \in MoveCodes : flight' = onKeyUp(flight, code)
  /\ UNCHANGED << time, frames, planets, camera, focus, dom, ui, hud, hist >>

FlightMouseMove ==
  /\ \E m \in MouseMoves :
       /\ Abs(flight.euler.y - m[1] * mouseSensitivity)
            <= MaxYawSteps * YawStep * mouseSensitivity
       /\ flight' = onMouseMove(flight, m[1], m[2])
  /\ UNCHANGED << time, frames, planets, camera, focus, dom, ui, hud, hist >>

FlightUpdate ==
  /\ frames < MaxFrames
  /\ \E deltaTime \in DtSet :
       LET r == flightUpdate(flight, camera, deltaTime)
       IN /\ flight' = r.flight
          /\ camera' = r.camera
          /\ hist' = [hist EXCEPT
                       !.frame = [noFrame EXCEPT
                                    !.ran = TRUE,
                                    !.writers = IF r.wrote THEN {"flight"} ELSE {}],
                       !.disable.updatedSince = hist.disable.called]
  /\ frames' = frames + 1
  /\ UNCHANGED << time, planets, focus, dom, ui, hud >>

FlightDisable ==
  /\ flight' = disable(flight)
  /\ hist' = IF flight.isLocked /\ flight.moveForward /\ flight.velocity # Zero3
              THEN [hist EXCEPT !.disable = [called |-> TRUE,
                                             position |-> camera.position,
                                             updatedSince |-> FALSE]]
              ELSE hist
  /\ UNCHANGED << time, frames, planets, camera, focus, dom, ui, hud >>

NextFlight ==
  \/ FlightLockChange
  \/ FlightKeyDown
  \/ FlightKeyUp
  \/ FlightMouseMove
  \/ FlightUpdate
  \/ FlightDisable

SpecFlight == Init /\ [][NextFlight]_vars

\* ----------------------------------- FocusControls driven on its own
\* focusOnNearest, returnToFreeFlight and update called in any order on a
\* body list of any shape PlanetData allows: bodies with or without a
\* position, with or without a mesh, planets with or without a moon.
MaxPlanets == 2
Near == [hasPosition |-> TRUE, x |-> 100, mesh |-> TRUE]
Far == [hasPosition |-> TRUE, x |-> 200, mesh |-> TRUE]
NearNoMesh == [hasPosition |-> TRUE, x |-> 100, mesh |-> FALSE]
Unplaced == [hasPosition |-> FALSE, x |-> 0, mesh |-> FALSE]
CameraSpots == { Vec(0, 0, 0), Vec(150, 0, 0) }

shapedBody(name, shape, moons) ==
  [BodyData(name, 4, 0, 1000, 1000, moons) EXCEPT
     !.hasPosition = shape.hasPosition,
     !.position = Vec(shape.x, 0, 0),
     !.mesh = shape.mesh]

planetName(i) == <<"P1", "P2", "P3">>[i]
moonName(i) == <<"M1", "M2", "M3">>[i]

\* A planet of any of the four shapes without a moon, or a planet with one
\* moon that has a position and a mesh.
PlanetShapes ==
  { << Near, << >> >>, << Far, << >> >>, << NearNoMesh, << >> >>, << Unplaced, << >> >>,
    << Far, << Near >> >>, << Near, << Far >> >>, << Unplaced, << Near >> >> }

listOf(shapes) ==
  [i \in DOMAIN shapes |->
     shapedBody(planetName(i), shapes[i][1],
                [j \in DOMAIN shapes[i][2] |-> shapedBody(moonName(i), shapes[i][2][j], << >>)])]

BodyLists ==
  UNION { { listOf(shapes) : shapes \in [1..n -> PlanetShapes] } : n \in 0..MaxPlanets }

InitFocus ==
  /\ time = 0
  /\ frames = 0
  /\ planets \in BodyLists
  /\ \E spot \in CameraSpots :
       /\ camera = [position |-> spot, quaternion |-> Euler(0, 0, 0)]
       /\ flight = flightInit(camera)
  /\ focus = focusInit
  /\ dom = [pointerLockElement |-> "null", lockPending |-> FALSE, exitPending |-> FALSE]
  /\ ui = [helpVisible |-> FALSE, settingsVisible |-> FALSE]
  /\ hud = [speed |-> 0, isFocused |-> FALSE, targetPlanet |-> NoPlanet, distance |-> 0]
  /\ hist = [frame |-> noFrame, release |-> noRelease,
             disable |-> noDisable, call |-> noCall]

FocusOnNearestCall ==
  /\ LET r == focusOnNearest(focus, camera, planets)
     IN /\ focus' = r.focus
        /\ hist' = [hist EXCEPT !.call = [called |-> TRUE, result |-> r.result,
                                          focus |-> focus, camera |-> camera]]
  /\ UNCHANGED << time, frames, planets, camera, flight, dom, ui, hud >>

ReturnToFreeFlightCall ==
  /\ focus' = returnToFreeFlight(focus)
  /\ hist' = [hist EXCEPT !.call = noCall]
  /\ UNCHANGED << time, frames, planets, camera, flight, dom, ui, hud >>

FocusUpdateCall ==
  /\ frames < MaxFrames
  /\ \E deltaTime \in DtSet :
       LET r == focusUpdate(focus, camera, planets, deltaTime)
       IN /\ focus' = r.focus
          /\ camera' = r.camera
  /\ frames' = frames + 1
  /\ hist' = [hist EXCEPT !.call = noCall]
  /\ UNCHANGED << time, planets, flight, dom, ui, hud >>

NextFocus ==
  \/ FocusOnNearestCall
  \/ ReturnToFreeFlightCall
  \/ FocusUpdateCall

SpecFocus == InitFocus /\ [][NextFocus]_vars

\* ------------------------------------------------------------ claims
allFlagsClear(fl) ==
  ~(fl.moveForward \/ fl.moveBackward \/ fl.moveLeft \/ fl.moveRight
    \/ fl.moveUp \/ fl.moveDown \/ fl.boost)

focusState(fc) ==
  IF ~fc.isFocused THEN "Idle"
  ELSE IF fc.transitionProgress < Milli THEN "Transitioning" ELSE "Orbiting"

\* C1: in every frame exactly one controller is updated, the focus
\* controller iff focus was active when the frame began, else the
\* free-flight controller; only that controller writes the camera in the
\* frame, and nothing writes the camera between frames.
C1_OneDriverPerFrame ==
  /\ [](hist.frame.ran =>
          /\ hist.frame.updated =
               (IF hist.frame.focusedAtStart THEN {"focus"} ELSE {"flight"})
          /\ hist.frame.writers \subseteq hist.frame.updated)
  /\ [][camera' # camera => frames' = frames + 1 /\ hist'.frame.writers # {}]_vars

\* C1 witness: a frame ran in focus mode and the focus controller wrote the
\* camera while free flight, locked with forward held, was left alone.
C1_Witness ==
  /\ hist.frame.ran /\ hist.frame.focusedAtStart
  /\ hist.frame.writers = {"focus"}
  /\ flight.isLocked /\ flight.moveForward

\* C2: the driving controller's update reads body positions already
\* recomputed for the frame's clock value: the target position the focus
\* controller read in the last frame is the target's position for the
\* current simulation time.
C2_ControllerReadsFreshPositions ==
  hist.frame.readTarget =>
    hist.frame.targetRead = bodyNamed(planets, hist.frame.targetName).position

\* C3: after a release, with no pointer motion and no movement key since
\* (and no movement flag left set), the camera keeps the pose it had at the
\* release, locked or unlocked.
C3_NoSnapBack ==
  (hist.release.active /\ hist.release.quiet /\ allFlagsClear(flight)) =>
    camera = hist.release.pose

\* C4: from a release until the first free-flight update after it, the
\* free-flight velocity is zero.
C4_RestAtResume ==
  (hist.release.active /\ ~hist.release.flightUpdated) => flight.velocity = Zero3

\* C4 witness: released, no free-flight update yet, the HUD still shows the
\* speed of the flight before the session, the controller is locked and a
\* movement key went down during the session.
C4_Witness ==
  /\ hist.release.active /\ ~hist.release.flightUpdated
  /\ hud.speed > 0 /\ flight.isLocked /\ flight.moveForward

\* C5: a second request-focus right after a request-focus changes nothing
\* of the navigation state, and request-focus while focused changes
\* nothing.
C5_RequestFocusIdempotent ==
  /\ Nav(onKeyF(onKeyF(App))) = Nav(onKeyF(App))
  /\ focus.isFocused => Nav(onKeyF(App)) = Nav(App)

\* C5 witness: a focus session whose transition has advanced and whose
\* camera has left the saved start position, with a movement key down.
C5_Witness ==
  /\ focus.isFocused /\ focus.transitionProgress > 0
  /\ camera.position # focus.originalPosition
  /\ flight.moveForward

\* C7: the free-flight pitch stays within [-pi/2, pi/2] and roll stays 0.
C7_PitchClamped ==
  /\ flight.euler.x >= -HalfPi /\ flight.euler.x <= HalfPi
  /\ flight.euler.z = 0

\* C7 witness: a pointer motion that would have passed the upper limit
\* left the pitch at the limit, after a focus session.
C7_Witness ==
  /\ flight.euler.x = HalfPi
  /\ hist.release.active

\* C10: the focus controller starts Idle and only moves Idle ->
\* Transitioning (on request-focus), Transitioning -> Orbiting (in a frame,
\* progress reaching 1) and Transitioning/Orbiting -> Idle (on release);
\* progress stays in [0, 1] and never decreases within a session.
C10_FocusStateMachine ==
  /\ focusState(focus) = "Idle"
  /\ [][LET a == focusState(focus)
             b == focusState(focus')
         IN /\ \/ a = b
               \/ a = "Idle" /\ b = "Transitioning" /\ focus' = onKeyF(App).focus
                    /\ focus'.transitionProgress = 0
               \/ a = "Transitioning" /\ b = "Orbiting" /\ frames' = frames + 1
               \/ a # "Idle" /\ b = "Idle" /\ focus' = onKeyG(App).focus
            /\ focus'.transitionProgress >= 0
            /\ focus'.transitionProgress <= Milli
            /\ (focus.isFocused /\ focus'.isFocused) =>
                 focus'.transitionProgress >= focus.transitionProgress]_vars

\* C10 witness: a session that went through its transition into orbit.
C10_Witness ==
  /\ focusState(focus) = "Orbiting"
  /\ hist.frame.ran /\ hist.frame.writers = {"focus"}

considered(ps) == {k \in DOMAIN flatten(ps, 1) : flatten(ps, 1)[k].hasPosition}
distanceSqOf(ps, k, cam) == LengthSq(VSub(cam.position, flatten(ps, 1)[k].position))

C9_EmptyListNoTarget ==
  (hist.call.called /\ Len(planets) = 0) =>
    /\ hist.call.result = NoPlanet
    /\ focusState(focus) = "Idle"
    /\ focus = hist.call.focus
    /\ camera = hist.call.camera

\* C9 witness: focusOnNearest was called on the empty list.
C9_Witness ==
  hist.call.called /\ Len(planets) = 0 /\ hist.call.result = NoPlanet

\* ------------------------------------- the app with frames that keep coming
\* requestAnimationFrame is re-armed at the top of every animate, so as long
\* as a frame can run one eventually does.  A frame is the step that counts
\* frames up, which only Animate takes.
FrameRuns == frames < MaxFrames /\ frames' = frames + 1
SpecLive == Spec /\ WF_frames(FrameRuns)

\* The shortest frame time, and the frames a transition needs at most.
MinDt == CHOOSE d \in DtSet : \A e \in DtSet : d <= e
FramesToFinish == (Milli + MinDt * transitionSpeed - 1) \div (MinDt * transitionSpeed)

\* C11: each frame of a focus session adds dt * transitionSpeed (dt over a
\* transition duration of 1 / transitionSpeed) to the progress, clamped to
\* 1; once Orbiting the controller stays Orbiting until release; and a
\* session that is not released reaches progress exactly 1, given the
\* frames it needs.
C11_ProgressReachesOne ==
  /\ [][(frames' = frames + 1 /\ focus.isFocused) =>
          focus'.transitionProgress =
            Min(focus.transitionProgress + (time' - time) * transitionSpeed, Milli)]_vars
  /\ [][(focusState(focus) = "Orbiting" /\ focus'.isFocused) =>
          focusState(focus') = "Orbiting"]_vars
  /\ (focus.isFocused /\ frames + FramesToFinish <= MaxFrames)
        ~> (~focus.isFocused \/ focus.transitionProgress = Milli)

\* C11 witness: a session entered after the first frame whose two frames,
\* of a quarter and a half of a second, would have carried the progress
\* past 1, and left it at 1.
C11_Witness ==
  /\ focus.isFocused /\ focus.transitionProgress = Milli
  /\ frames = 3 /\ time = 750

\* The controller after returnToFreeFlight() and, at once, focusOnPlanet on
\* the body it was focused on.
refocused ==
  focusOnPlanet(returnToFreeFlight(focus), camera, bodyNamed(planets, focus.targetPlanet))

\* C12: release followed at once by a focus on the same body gives a fresh
\* session: Transitioning at progress 0, start pose the camera's pose now,
\* orbit radius 3 body radii, orbit angle the bearing from the camera to
\* the body now; it is the session a controller that never focused before
\* would start.
C12_RefocusIsFresh ==
  focus.isFocused =>
    LET body == bodyNamed(planets, focus.targetPlanet)
    IN /\ focusState(refocused) = "Transitioning"
       /\ refocused.targetPlanet = body.name
       /\ refocused.transitionProgress = 0
       /\ refocused.originalPosition = camera.position
       /\ refocused.originalQuaternion = camera.quaternion
       /\ refocused.orbitRadius = 3 * body.radius
       /\ refocused.orbitAngle = Atan2(body.position.x - camera.position.x,
                                       body.position.z - camera.position.z)
       /\ refocused = focusOnPlanet(focusInit, camera, body)

\* C12 witness: a session in orbit, the camera away from the saved start
\* position and the orbit angle away from the bearing, so each of them has
\* to change on the refocus, and does.
C12_Witness ==
  /\ focus.isFocused /\ focus.transitionProgress = Milli
  /\ focus.originalPosition # camera.position
  /\ refocused.originalPosition = camera.position
  /\ refocused.orbitAngle # focus.orbitAngle
  /\ refocused.transitionProgress = 0

\* ------------------------------------------ the app with its panels
\* Frames, the focus commands, the pointer lock and the keys of the help
\* overlay and the settings panel (Escape, KeyH, KeyP), without movement
\* keys and pointer motion.
NextPanels ==
  \/ Animate
  \/ Click
  \/ KeyEscape
  \/ KeyH
  \/ KeyP
  \/ KeyF
  \/ KeyG
  \/ PointerLockGranted
  \/ PointerLockError
  \/ PointerLockExited

SpecPanels == Init /\ [][NextPanels]_vars

panelOpen == ui.helpVisible \/ ui.settingsVisible

\* What request-release has to leave behind when it releases: the focus
\* controller Idle with no target, the camera, the pointer lock and the
\* free-flight controller (its Locked flag with it) as they were.
released(st) ==
  /\ focusState(st.focus) = "Idle"
  /\ st.focus.targetPlanet = NoPlanet
  /\ st.camera = camera
  /\ st.dom = dom
  /\ st.flight = flight

\* C13 as stated: request-release (KeyG) changes nothing when not focused,
\* and when focused, at any progress, releases.
C13_ReleaseAlways ==
  /\ ~focus.isFocused => onKeyG(App) = App
  /\ focus.isFocused => released(onKeyG(App))

\* C13 amended: request-release changes nothing when not focused or while
\* the help overlay or the settings panel is open; when focused with no
\* panel open it releases, at any progress.
C13_ReleaseUnlessPanelOpen ==
  /\ (~focus.isFocused \/ panelOpen) => onKeyG(App) = App
  /\ (focus.isFocused /\ ~panelOpen) => released(onKeyG(App))

\* C13 witness: a release in mid-transition, locked, the camera already off
\* its saved start position.
C13_Witness ==
  /\ focusState(focus) = "Transitioning" /\ focus.transitionProgress > 0
  /\ flight.isLocked /\ ~panelOpen
  /\ camera.position # focus.originalPosition
  /\ released(onKeyG(App))

\* C14: a rejected lock() request is reported through a callback of the
\* controller, leaves the controller Unlocked and starts no new request.
C14_RejectionReported ==
  dom.lockPending =>
    /\ onPointerlockError(flight).callbacks # {}
    /\ ~onPointerlockError(flight).flight.isLocked

\* C15: while the free-flight controller is Unlocked a pointer motion, a
\* key going down or up, and an update change nothing of the controller
\* (yaw, pitch, flags, velocity) and nothing of the camera.
C15_UnlockedIgnoresInput ==
  [][(~flight.isLocked /\ (FlightMouseMove \/ FlightKeyDown \/ FlightKeyUp \/ FlightUpdate))
       => (flight' = flight /\ camera' = camera)]_vars

\* C16: getDistanceToTarget() is 0 whenever the focus controller is Idle;
\* while a target is set the target has a position and the result is the
\* distance from the camera to it.
C16_DistanceSentinel ==
  /\ focusState(focus) = "Idle" => getDistanceToTarget(focus, camera, planets) = 0
  /\ focus.targetPlanet # NoPlanet =>
       /\ focus.isFocused
       /\ bodyNamed(planets, focus.targetPlanet).hasPosition
       /\ getDistanceToTarget(focus, camera, planets) =
            Sqrt(LengthSq(VSub(camera.position,
                               bodyNamed(planets, focus.targetPlanet).position)))

\* C16 witness: Idle after a session that carried the camera off its
\* starting spot, away from every body, and the result is 0 all the same.
C16_Witness ==
  /\ focusState(focus) = "Idle" /\ frames >= 1
  /\ camera.position \notin CameraSpots
  /\ \A k \in considered(planets) : distanceSqOf(planets, k, camera) > 0
  /\ getDistanceToTarget(focus, camera, planets) = 0

\* The stored positions of all bodies, in visiting order.
positionsOf(ps) == [k \in DOMAIN flatten(ps, 1) |-> flatten(ps, 1)[k].position]

\* C17: the positions after any sequence of ticks are those one tick from
\* the freshly created bodies to the same accumulated time gives.
C17_PositionsDependOnTimeOnly ==
  frames >= 1 =>
    positionsOf(planets) = positionsOf(updateSolarSystem(createSolarSystem, time))

\* C17 witness: half a second reached in two equal steps after the first
\* frame, the bodies away from where they were created.
C17_Witness ==
  /\ time = 500 /\ frames = 3
  /\ positionsOf(planets) # positionsOf(createSolarSystem)

\* C18: in every state, the one right after creation included, a planet is
\* stored at its orbit offset for the current time and a moon at its
\* planet's stored position plus its own orbit offset.
C18_PositionsFollowFormula ==
  \A i \in DOMAIN planets :
    /\ planets[i].position = orbitalOffset(time, planets[i])
    /\ \A j \in DOMAIN planets[i].moons :
         planets[i].moons[j].position =
           VAdd(planets[i].position, orbitalOffset(time, planets[i].moons[j]))

\* C19: after a tick every moon is at its planet's position of the same
\* tick plus its own offset.
C19_ParentBeforeSatellite ==
  frames >= 1 =>
    \A i \in DOMAIN planets : \A j \in DOMAIN planets[i].moons :
      planets[i].moons[j].position =
        VAdd(orbitalOffset(time, planets[i]), orbitalOffset(time, planets[i].moons[j]))

\* C19 witness: a tick that moved a planet with a moon, so that the
\* planet's position of the tick before would put the moon elsewhere.
C19_Witness ==
  /\ frames >= 2
  /\ \E i \in DOMAIN planets :
       /\ planets[i].moons # << >>
       /\ planets[i].position # orbitalOffset(0, planets[i])
       /\ planets[i].moons[1].position =
            VAdd(planets[i].position, orbitalOffset(time, planets[i].moons[1]))

\* C20: in every tick each body's spin angle grows by
\* (1 / rotationPeriod) * 0.01 * dt (micro-radians; frozen when
\* rotationPeriod is 0), so that the angle after an elapsed time does not
\* depend on the number of ticks.
C20_SpinProportionalToDt ==
  [][frames' = frames + 1 =>
       \A k \in DOMAIN flatten(planets, 1) :
         LET before == flatten(planets, 1)[k]
             after == flatten(planets', 1)[k]
         IN after.rotationY - before.rotationY =
              (IF before.rotationPeriod = 0 THEN 0
               ELSE TDiv(10000 * (time' - time), before.rotationPeriod))]_vars

\* ------------------------------------- updateSolarSystem driven on its own
\* The body updater ticking over catalogs of one planet with one moon whose
\* orbitPeriod and rotationPeriod take any sign PlanetData (a number each)
\* allows: prograde, retrograde and zero.
Periods == { -1000, 0, 1000 }

catalogOf(po, pr, mo, mr) ==
  << BodyData("Earth", 16, 4250, po, pr,
              << BodyData("Moon", 4, 288, mo, mr, << >>) >>) >>

InitBodies ==
  /\ \E po \in Periods, pr \in Periods, mo \in Periods, mr \in Periods :
       planets = createBodies(catalogOf(po, pr, mo, mr))
  /\ time = 0 /\ frames = 0
  /\ camera = cameraInit
  /\ flight = flightInit(cameraInit)
  /\ focus = focusInit
  /\ dom = [pointerLockElement |-> "null", lockPending |-> FALSE, exitPending |-> FALSE]
  /\ ui = [helpVisible |-> FALSE, settingsVisible |-> FALSE]
  /\ hud = [speed |-> 0, isFocused |-> FALSE, targetPlanet |-> NoPlanet, distance |-> 0]
  /\ hist = [frame |-> noFrame, release |-> noRelease, disable |-> noDisable, call |-> noCall]

\* One call of updateSolarSystem with the accumulated time.
Tick ==
  /\ frames < MaxFrames
  /\ \E deltaTime \in DtSet :
       /\ time' = time + deltaTime
       /\ planets' = updateSolarSystem(planets, time + deltaTime)
  /\ frames' = frames + 1
  /\ UNCHANGED << camera, flight, focus, dom, ui, hud, hist >>

NextBodies == Tick

SpecBodies == InitBodies /\ [][NextBodies]_vars

\* C21: a body with rotationPeriod 0, planet or moon, keeps the spin angle
\* it was created with and the angle stays finite over any number of ticks;
\* after a tick a body with a negative rotationPeriod has turned the other
\* way than one with a positive rotationPeriod.
C21_ZeroPeriodFreezesSpin ==
  \A k \in DOMAIN flatten(planets, 1) :
    LET b == flatten(planets, 1)[k]
    IN /\ b.rotationFinite
       /\ b.rotationPeriod = 0 => b.rotationY = 0
       /\ (frames >= 1 /\ b.rotationPeriod < 0) => b.rotationY < 0
       /\ (frames >= 1 /\ b.rotationPeriod > 0) => b.rotationY > 0

\* C22: no tick has computed a position for a body whose orbitPeriod is not
\* positive: every body the updater has moved has a positive orbitPeriod.
C22_NonPositiveOrbitPeriodRejected ==
  frames >= 1 =>
    \A k \in DOMAIN flatten(planets, 1) :
      LET b == flatten(planets, 1)[k]
      IN b.mesh => b.orbitPeriod > 0

\* The part of the gap between velocity and target velocity one update
\* closes (hundredths of a unit per second out of baseSpeed): from rest with
\* forward commanded, and from baseSpeed straight ahead with nothing
\* commanded, the controller locked and looking where it looks now.
gapClosedAccelerating(deltaTime) ==
  LET fl == [flight EXCEPT !.isLocked = TRUE, !.moveForward = TRUE,
                           !.moveBackward = FALSE, !.velocity = Zero3]
  IN getSpeed(flightUpdate(fl, camera, deltaTime).flight)

gapClosedCoasting(deltaTime) ==
  LET ahead == applyQuaternion(Vec(0, 0, -Milli), setFromEuler(flight.euler))
      fl == [disable(flight) EXCEPT !.isLocked = TRUE,
                                    !.velocity = VScale(ahead, baseSpeed * Centi, Milli)]
  IN getSpeed(fl) - getSpeed(flightUpdate(fl, camera, deltaTime).flight)

\* C23: for the same dt one update closes a larger part of the velocity gap
\* while a direction is commanded than while none is.
C23_AcceleratingIsFaster ==
  \A deltaTime \in DtSet :
    gapClosedAccelerating(deltaTime) > gapClosedCoasting(deltaTime)

\* ------------------------------------------------ CosmosApp.init in steps
\* init() runs up to its await, the catalog is built one createPlanet at a
\* time with the event loop free in between, and what follows the await
\* (both controllers, the panels, setupInputHandlers, isRunning, the first
\* animate()) runs in one go.  Until then the app's fields for the
\* controllers are unassigned.
Unassigned == [assigned |-> FALSE]

\* The catalog after the next await createPlanet has resolved: the first
\* body without a mesh, planets in order, each followed by its moons.
RECURSIVE loadMoons(_, _)
loadMoons(moons, j) ==
  IF j > Len(moons) THEN moons
  ELSE IF ~moons[j].mesh THEN [moons EXCEPT ![j] = createPlanet(moons[j])]
  ELSE loadMoons(moons, j + 1)

RECURSIVE loadNext(_, _)
loadNext(ps, i) ==
  IF i > Len(ps) THEN ps
  ELSE IF ~ps[i].mesh THEN [ps EXCEPT ![i] = createPlanet(ps[i])]
  ELSE IF \E j \in DOMAIN ps[i].moons : ~ps[i].moons[j].mesh
       THEN [ps EXCEPT ![i].moons = loadMoons(ps[i].moons, 1)]
  ELSE loadNext(ps, i + 1)

\* An init() that does not wait for createSolarSystem.
loadingDoneAtOnce(ps) == TRUE

\* await createSolarSystem(...) resolves once every body has been created.
loadingDone(ps) == \A k \in DOMAIN flatten(ps, 1) : flatten(ps, 1)[k].mesh

InitLoading ==
  /\ time = 0
  /\ frames = 0
  /\ planets = planetsData
  /\ camera = cameraInit
  /\ flight = Unassigned
  /\ focus = Unassigned
  /\ dom = [pointerLockElement |-> "null", lockPending |-> FALSE, exitPending |-> FALSE]
  /\ ui = [helpVisible |-> FALSE, settingsVisible |-> FALSE]
  /\ hud = [speed |-> 0, isFocused |-> FALSE, targetPlanet |-> NoPlanet, distance |-> 0]
  /\ hist = [frame |-> noFrame, release |-> noRelease,
             disable |-> noDisable, call |-> noCall]

\* One await createPlanet resolves.
LoadStep ==
  /\ flight = Unassigned
  /\ ~loadingDone(planets)
  /\ planets' = loadNext(planets, 1)
  /\ UNCHANGED << time, frames, camera, flight, focus, dom, ui, hud, hist >>

\* The await in init() resolves: the controllers are constructed, the
\* handlers registered and the first frame run.
InitContinues ==
  /\ flight = Unassigned
  /\ loadingDone(planets)
  /\ \E r \in {animate([App EXCEPT !.flight = flightInit(camera),
                                   !.focus = focusInit], 0)} :
       /\ Becomes(r.state)
       /\ hist' = [hist EXCEPT
                    !.frame = [ran |-> TRUE,
                               focusedAtStart |-> FALSE,
                               updated |-> r.updated,
                               writers |-> r.writers,
                               readTarget |-> r.readTarget,
                               targetRead |-> r.targetRead,
                               targetName |-> NoPlanet]]
  /\ frames' = frames + 1

NextStartup ==
  \/ LoadStep
  \/ InitContinues
  \/ (isRunning /\ Next)

SpecStartup == InitLoading /\ [][NextStartup]_vars

\* Both controllers constructed and every body of the catalog created.
initialised ==
  /\ "isLocked" \in DOMAIN flight
  /\ "isFocused" \in DOMAIN focus
  /\ \A k \in DOMAIN flatten(planets, 1) :
       flatten(planets, 1)[k].mesh /\ flatten(planets, 1)[k].hasPosition

\* C24: every step that runs a frame or changes what a focus, release or
\* lock command changes (a controller, the pointer lock), ends with both
\* controllers constructed and the catalog complete; while the catalog is
\* loading no such step happens.
C24_NothingRunsBeforeInit ==
  [][(frames' # frames \/ flight' # flight \/ focus' # focus \/ dom' # dom)
       => initialised']_vars

\* C24 witness: the loading is over, the first frame has run, and a click
\* has asked for the pointer lock.
C24_Witness ==
  /\ initialised /\ frames >= 1 /\ hist.frame.ran
  /\ dom.lockPending

\* --------------------------- FlightControls with any keys already held
\* The controller started with any of the seven flags set, as key presses
\* made before leave it, then locked, unlocked, disabled and updated in
\* any order, with W pressed and released in between, a frame coming after
\* 0.25 s or, the tab having been hidden, after a minute.
LateDts == { 250, 60000 }

InitKeys ==
  /\ time = 0
  /\ frames = 0
  /\ planets = createSolarSystem
  /\ camera = cameraInit
  /\ \E f, b, l, r, u, d, s \in BOOLEAN :
       flight = [flightInit(cameraInit) EXCEPT
                   !.moveForward = f, !.moveBackward = b, !.moveLeft = l,
                   !.moveRight = r, !.moveUp = u, !.moveDown = d, !.boost = s]
  /\ focus = focusInit
  /\ dom = [pointerLockElement |-> "null", lockPending |-> FALSE, exitPending |-> FALSE]
  /\ ui = [helpVisible |-> FALSE, settingsVisible |-> FALSE]
  /\ hud = [speed |-> 0, isFocused |-> FALSE, targetPlanet |-> NoPlanet, distance |-> 0]
  /\ hist = [frame |-> noFrame, release |-> noRelease,
             disable |-> noDisable, call |-> noCall]

FlightLateUpdate ==
  /\ frames < MaxFrames
  /\ \E deltaTime \in LateDts :
       LET r == flightUpdate(flight, camera, deltaTime)
       IN /\ flight' = r.flight
          /\ camera' = r.camera
  /\ frames' = frames + 1
  /\ hist' = IF hist.disable.called
              THEN [hist EXCEPT !.disable.updatedSince = TRUE] ELSE hist
  /\ UNCHANGED << time, planets, focus, dom, ui, hud >>

NextKeys ==
  \/ FlightLockChange
  \/ FlightKeyDown
  \/ FlightKeyUp
  \/ FlightLateUpdate
  \/ FlightDisable

SpecKeys == InitKeys /\ [][NextKeys]_vars

\* C25: whatever flags are set, a pair of opposite flags contributes
\* nothing, the direction has length 1 (to a thousandth) unless every pair
\* cancels, and the target velocity has the magnitude
\* baseSpeed * (boost ? boostMultiplier : 1), diagonals included (to two
\* thousandths, the rounding of the rotation), and is zero when every pair
\* cancels.
C25_TargetSpeedNormalized ==
  LET d == flagDirection(flight)
      target == targetVelocity(flight, setFromEuler(flight.euler))
      speed == baseSpeed * Centi * (IF flight.boost THEN boostMultiplier ELSE 1)
      cancelled == /\ flight.moveRight = flight.moveLeft
                   /\ flight.moveUp = flight.moveDown
                   /\ flight.moveForward = flight.moveBackward
  IN /\ flight.moveRight = flight.moveLeft => d.x = 0
     /\ flight.moveUp = flight.moveDown => d.y = 0
     /\ flight.moveForward = flight.moveBackward => d.z = 0
     /\ cancelled => target = Zero3
     /\ ~cancelled => /\ Abs(Length(d) - Milli) <= 1
                      /\ Abs(Length(target) - speed) * Milli <= 2 * speed

\* C25 witness: locked and updated with forward, right, up and boost held
\* together, and moving.
C25_Witness ==
  /\ frames >= 1 /\ flight.isLocked
  /\ flight.moveForward /\ flight.moveRight /\ flight.moveUp /\ flight.boost
  /\ ~flight.moveBackward /\ ~flight.moveLeft /\ ~flight.moveDown
  /\ getSpeed(flight) > 0

\* C26: getSpeed() never exceeds baseSpeed * boostMultiplier.
C26_SpeedBounded ==
  getSpeed(flight) <= baseSpeed * boostMultiplier * Centi

\* C26 witness: after two frames the speed is within baseSpeed of the
\* bound, well above what is reached without boost.
C26_Witness ==
  /\ frames >= 2
  /\ getSpeed(flight) > baseSpeed * (boostMultiplier - 1) * Centi

\* C27: getIsFocused() is true exactly when getTargetPlanet() is not null,
\* and what the last frame handed to the HUD agrees with itself: mode Focus
\* exactly when a target is shown.
C27_FocusedIffTarget ==
  /\ focus.isFocused <=> focus.targetPlanet # NoPlanet
  /\ hud.isFocused <=> hud.targetPlanet # NoPlanet

\* C27 witness: a session was released and a frame has run since, the HUD
\* back in Free Flight with no target.
C27_Witness ==
  /\ hist.release.active /\ hist.release.flightUpdated
  /\ ~focus.isFocused /\ focus.targetPlanet = NoPlanet
  /\ ~hud.isFocused /\ hud.targetPlanet = NoPlanet

\* C28: right after focusOnNearest, if it returned a body the controller is
\* focused on that body with the transition at 0, and if it returned null
\* the controller is as it was before the call.
C28_ReturnedBodyIsFocused ==
  hist.call.called =>
    IF hist.call.result # NoPlanet
    THEN /\ focus.isFocused
         /\ focus.targetPlanet = hist.call.result
         /\ focus.transitionProgress = 0
    ELSE focus = hist.call.focus

\* C29: while the help overlay or the settings panel is visible the flight
\* controller is not left Locked: if it is Locked at all, the exit from the
\* pointer lock has been asked for and is on its way.
C29_NoLockUnderPanel ==
  (panelOpen /\ flight.isLocked) => dom.exitPending

\* C30: an update while Unlocked changes neither the controller nor the
\* camera, so velocity and getSpeed() stay what they were; gaining or
\* losing the lock leaves velocity alone, so the first update after a new
\* lock starts from the velocity held.
C30_UnlockedUpdateKeepsVelocity ==
  [][/\ (~flight.isLocked /\ frames' = frames + 1) =>
          /\ flight' = flight
          /\ camera' = camera
          /\ getSpeed(flight') = getSpeed(flight)
     /\ flight'.isLocked # flight.isLocked => flight'.velocity = flight.velocity]_vars

\* C30 witness: the last update ran while Unlocked and wrote nothing, and
\* the controller, locked again since, still has the velocity it had.
C30_Witness ==
  /\ hist.frame.ran /\ hist.frame.writers = {}
  /\ flight.isLocked
  /\ getSpeed(flight) > 0
====
